---- MODULE Spec2Model ----
(***************************************************************************)
(* kk: a terminal kanban board (src/src/main.rs).                          *)
(*                                                                         *)
(* The model has three layers, as the program has:                         *)
(*   - the Store (struct Repo over SQLite): boards, statuses, cards;       *)
(*   - the in-memory Model (struct Model): board list, loaded board,       *)
(*     selection cursor, mode, confirmation state, error banner;           *)
(*   - the event loop of main(): key events and internal events are        *)
(*     turned into messages by handle_event, update() processes them, and  *)
(*     a failed update is fed back as Message::SetError.                   *)
(* Spec is the whole program. SpecStore calls the Store's operations      *)
(* alone, in any order. SpecTx runs Repo::insert_card statement by         *)
(* statement in two processes that share one database file.                *)
(***************************************************************************)
EXTENDS Integers, Sequences, FiniteSets, TLC

\* ------------------------------------------------------------------ bounds

\* at most this many boards are created
MaxBoards == 2
\* the event loop creates at most this many rows: boards, columns and cards
MaxRows == 5
\* SpecStore and SpecTx: insert_card is called while the board's card
\* counter is at most this
MaxInserts == 2
\* current_timestamp takes the values 0..MaxClock
MaxClock == 1
\* at most this many clear-error timers are asleep or queued at once
MaxTimers == 1

BoardNames == {"Board1", "Board2"}
ColumnNames == {"Todo", "Doing"}
CardTitles == {"Title1", "Title2"}

\* ------------------------------------------------------------------- state

VARIABLES
    db,                 \* Repo.conn: the committed database
    now,                \* SQLite's current_timestamp (one-second resolution)
    model,              \* struct Model: board_metas, board, selected, mode,
                        \* running_state, confirmation_state, error
    current_msg,        \* main(): current_msg between two calls of update
    aborted,            \* the process has panicked
    timers,             \* sleeping clear-error threads
    internal_events,    \* ClearError events queued on internal_event_rx
    ext_log,            \* history: per board, the external ids handed out
    tx                  \* SpecTx: the write lock and the two processes

vars == <<db, now, model, current_msg, aborted, timers, internal_events, ext_log, tx>>

\* ----------------------------------------------------------------- helpers

\* Option<usize>::None
None == -1

IsSome(x) == x # None

Min(a, b) == IF a < b THEN a ELSE b

\* usize::saturating_sub
SatSub(a, b) == IF a > b THEN a - b ELSE 0

MaxOf(S) == CHOOSE x \in S : \A y \in S : y <= x

\* every enumeration of the finite set S as a sequence
Perms(S) ==
    {p \in [1..Cardinality(S) -> S] : \A i, j \in 1..Cardinality(S) : i # j => p[i] # p[j]}

\* Vec::remove(i), i counted from 0
RemoveAt(s, i) == [k \in 1..(Len(s) - 1) |-> IF k <= i THEN s[k] ELSE s[k + 1]]

\* Vec::insert(0, x)
InsertFront(s, x) == <<x>> \o s

Range(s) == {s[i] : i \in 1..Len(s)}

\* ------------------------------------------------------------------- Store

EmptyDb == [boards |-> <<>>, statuses |-> <<>>, cards |-> {}]

NoBoard == [id |-> 0, name |-> "", columns |-> <<>>]

BoardIds(d) == 1..Len(d.boards)

StatusIds(d) == 1..Len(d.statuses)

\* the statuses rows of one board
StatusesOf(d, board_id) == {s \in StatusIds(d) : d.statuses[s].board_id = board_id}

\* rowid of the next row of cards: "id integer primary key" without
\* autoincrement takes the largest rowid in the table plus one
NextCardRowId(d) == IF d.cards = {} THEN 1 ELSE MaxOf({c.id : c \in d.cards}) + 1

\* "order by column_order asc": every order of the board's statuses that the
\* sort allows (rows with equal column_order come in any order)
StatusOrders(d, board_id) ==
    {p \in Perms(StatusesOf(d, board_id)) :
        \A i, j \in 1..Len(p) :
            i < j => d.statuses[p[i]].column_order <= d.statuses[p[j]].column_order}

\* "order by boards.viewed_at desc" over the boards that have a status
\* (inner join): every order the sort allows
BoardOrders(d) ==
    {p \in Perms({b \in BoardIds(d) : StatusesOf(d, b) # {}}) :
        \A i, j \in 1..Len(p) :
            i < j => d.boards[p[i]].viewed_at >= d.boards[p[j]].viewed_at}

\* a column name that holds the separator of group_concat
PipeName == "To|do"

\* str::split('|') of a column name: the pieces between the separators
Pieces(name) == IF name = PipeName THEN <<"To", "do">> ELSE <<name>>

RECURSIVE SplitConcat(_, _)
\* group_concat(statuses.name, '|' order by column_order) of the statuses co,
\* then column_names.split('|'): the pieces of every name, in order
SplitConcat(d, co) ==
    IF co = <<>> THEN <<>>
    ELSE Pieces(d.statuses[Head(co)].name) \o SplitConcat(d, Tail(co))

\* the BoardMeta of one board, its column names read in the order co
BoardMetaOf(d, board_id, co) ==
    [id |-> board_id,
     name |-> d.boards[board_id].name,
     columns |-> SplitConcat(d, co)]

\* Repo::get_board_metas: the results the query can give
get_board_metas(d) ==
    {[i \in 1..Len(p) |-> BoardMetaOf(d, p[i], cof[p[i]])] :
        p \in BoardOrders(d),
        cof \in {f \in [BoardIds(d) -> UNION {StatusOrders(d, b) \cup {<<>>} : b \in BoardIds(d)}] :
                    \A b \in BoardIds(d) :
                        IF StatusesOf(d, b) = {} THEN f[b] = <<>> ELSE f[b] \in StatusOrders(d, b)}}

RECURSIVE SortCardsDesc(_)
\* cards of a set as a sequence, "order by cards.id desc"
SortCardsDesc(S) ==
    IF S = {} THEN <<>>
    ELSE LET top == CHOOSE c \in S : \A o \in S : o.id <= c.id
         IN <<top>> \o SortCardsDesc(S \ {top})

\* the in-memory Card of a cards row
CardOf(row) == [id |-> row.id, external_id |-> row.external_id,
                title |-> row.title, body |-> row.body]

\* Repo::cards_for_column
cards_for_column(d, board_id, column_name) ==
    SortCardsDesc({CardOf(c) : c \in {r \in d.cards :
        /\ r.status_id \in StatusIds(d)
        /\ d.statuses[r.status_id].board_id = board_id
        /\ d.statuses[r.status_id].name = column_name}})

\* Repo::get_cards_for_board: the column lists the query can give
get_cards_for_board(d, board_id) ==
    {[i \in 1..Len(co) |->
        [name |-> d.statuses[co[i]].name,
         cards |-> cards_for_column(d, board_id, d.statuses[co[i]].name)]] :
        co \in StatusOrders(d, board_id)}

\* Repo::load_board, the transaction: viewed_at = current_timestamp
load_board_stamp(d, board_id, t) ==
    [d EXCEPT !.boards[board_id].viewed_at = t]

\* Repo::load_board: the boards it can return, read after the stamp
load_board(d, board_id) ==
    {[id |-> board_id, name |-> d.boards[board_id].name, columns |-> cols] :
        cols \in get_cards_for_board(d, board_id)}

\* Repo::load_most_recently_viewed_board: "order by viewed_at desc limit 1"
load_most_recently_viewed_board(d) ==
    IF d.boards = <<>> THEN {NoBoard}
    ELSE UNION {load_board(d, b) :
            b \in {x \in BoardIds(d) :
                    \A y \in BoardIds(d) : d.boards[y].viewed_at <= d.boards[x].viewed_at}}

\* SQLite's messages for the failures the Store raises
ErrUnique == "UNIQUE constraint failed"
ErrNotNull == "NOT NULL constraint failed: cards.status_id"
ErrIo == "database is locked"

RECURSIVE insert_statuses(_, _, _, _)
\* Repo::create_board, the loop over column_names.iter().enumerate(): the
\* insert of column i (counted from 1 here, stored as order i - 1) fails on
\* the unique index statuses_name_board_id
insert_statuses(d, board_id, column_names, i) ==
    IF i > Len(column_names) THEN [ok |-> TRUE, db |-> d]
    ELSE IF \E s \in StatusesOf(d, board_id) : d.statuses[s].name = column_names[i]
         THEN [ok |-> FALSE, db |-> d]
         ELSE insert_statuses(
                [d EXCEPT !.statuses = Append(@, [name |-> column_names[i],
                                                  column_order |-> i - 1,
                                                  board_id |-> board_id])],
                board_id, column_names, i + 1)

\* Repo::create_board without its transaction: the rows written before the
\* failing statement stay
Repo_create_board_no_rollback(d, name, column_names, t) ==
    IF \E b \in BoardIds(d) : d.boards[b].name = name
    THEN [ok |-> FALSE, db |-> d, err |-> ErrUnique]
    ELSE LET board_id == Len(d.boards) + 1
             d1 == [d EXCEPT !.boards =
                        Append(@, [name |-> name, card_id |-> 1, viewed_at |-> t])]
             r == insert_statuses(d1, board_id, column_names, 1)
         IN [ok |-> r.ok, db |-> r.db, err |-> ErrUnique]

\* Repo::create_board: the board row (unique index boards_name), then one
\* statuses row per column name, in one transaction; a failed statement
\* drops the transaction, which rolls it back
Repo_create_board(d, name, column_names, t) ==
    IF \E b \in BoardIds(d) : d.boards[b].name = name
    THEN [ok |-> FALSE, db |-> d, err |-> ErrUnique]
    ELSE LET board_id == Len(d.boards) + 1
             d1 == [d EXCEPT !.boards =
                        Append(@, [name |-> name, card_id |-> 1, viewed_at |-> t])]
             r == insert_statuses(d1, board_id, column_names, 1)
         IN IF r.ok THEN [ok |-> TRUE, db |-> r.db, err |-> ""]
            ELSE [ok |-> FALSE, db |-> d, err |-> ErrUnique]

RECURSIVE upsert_statuses(_, _, _, _)
\* Repo::update_board_columns_order, the loop: insert (name, i, board), "on
\* conflict(name, board_id) do update set column_order = excluded.column_order"
upsert_statuses(d, board_id, column_names, i) ==
    IF i > Len(column_names) THEN d
    ELSE LET hit == {s \in StatusesOf(d, board_id) : d.statuses[s].name = column_names[i]}
             d1 == IF hit = {}
                   THEN [d EXCEPT !.statuses = Append(@, [name |-> column_names[i],
                                                          column_order |-> i - 1,
                                                          board_id |-> board_id])]
                   ELSE [d EXCEPT !.statuses =
                            [s \in StatusIds(d) |->
                                IF s \in hit THEN [d.statuses[s] EXCEPT !.column_order = i - 1]
                                ELSE d.statuses[s]]]
         IN upsert_statuses(d1, board_id, column_names, i + 1)

\* an update_board_columns_order whose upserts stay when the rename fails
update_board_columns_order_no_rollback(d, board_id, board_name, column_names) ==
    IF \E b \in BoardIds(d) : b # board_id /\ d.boards[b].name = board_name
    THEN [ok |-> FALSE, db |-> upsert_statuses(d, board_id, column_names, 1), err |-> ErrUnique]
    ELSE [ok |-> TRUE,
          db |-> [upsert_statuses(d, board_id, column_names, 1)
                    EXCEPT !.boards[board_id].name = board_name],
          err |-> ""]

\* Repo::update_board_columns_order, the transaction: the upserts, then the
\* rename (unique index boards_name); rolled back when the rename fails
update_board_columns_order_tx(d, board_id, board_name, column_names) ==
    IF \E b \in BoardIds(d) : b # board_id /\ d.boards[b].name = board_name
    THEN [ok |-> FALSE, db |-> d, err |-> ErrUnique]
    ELSE [ok |-> TRUE,
          db |-> [upsert_statuses(d, board_id, column_names, 1)
                    EXCEPT !.boards[board_id].name = board_name],
          err |-> ""]

\* Repo::insert_card, first statement: the board's statuses row of lowest
\* column_order ("order by column_order asc limit 1")
insert_card_status(d, board_id) ==
    {s \in StatusesOf(d, board_id) :
        \A o \in StatusesOf(d, board_id) :
            d.statuses[s].column_order <= d.statuses[o].column_order}

\* Repo::insert_card, second statement: the board's counter
insert_card_counter(d, board_id) == d.boards[board_id].card_id

\* Repo::insert_card, third statement: the cards row
insert_card_row(d, board_id, status_id, external_card_id, title, body) ==
    [d EXCEPT !.cards = @ \cup {[id |-> NextCardRowId(d),
                                 external_id |-> external_card_id,
                                 board_id |-> board_id,
                                 status_id |-> status_id,
                                 title |-> title,
                                 body |-> body]}]

\* insert_card whose counter update is keyed on the wrong row: every board's
\* counter moves
insert_card_bump_all(d, board_id) ==
    [d EXCEPT !.boards = [b \in BoardIds(d) |-> [d.boards[b] EXCEPT !.card_id = @ + 1]]]

\* Repo::insert_card, fourth statement: card_id = card_id + 1
insert_card_bump(d, board_id) ==
    [d EXCEPT !.boards[board_id].card_id = @ + 1]

\* Repo::insert_card run alone: the four statements and the commit. The
\* results it can give: the new database and the Card returned
insert_card(d, board_id, title, body) ==
    {[db |-> insert_card_bump(
                insert_card_row(d, board_id, s, insert_card_counter(d, board_id), title, body),
                board_id),
      card |-> [id |-> NextCardRowId(d),
                external_id |-> insert_card_counter(d, board_id),
                title |-> title, body |-> body]] :
        s \in insert_card_status(d, board_id)}

\* an update_card that writes nothing
update_card_unsaved(d, card_id, title, body) == d

\* Repo::update_card
update_card(d, card_id, title, body) ==
    [d EXCEPT !.cards = {IF c.id = card_id THEN [c EXCEPT !.title = title, !.body = body]
                         ELSE c : c \in d.cards}]

\* a set_card_status that returns Ok and writes nothing
set_card_status_unsaved(d, board_id, card_id, column_name) ==
    [ok |-> TRUE, db |-> d, err |-> ""]

\* Repo::set_card_status: status_id = (select id from statuses where
\* board_id = ?1 and name = ?2) where id = ?3. With no such status the
\* subquery is null and the update of an existing card violates "status_id
\* integer not null"
set_card_status(d, board_id, card_id, column_name) ==
    LET hit == {s \in StatusesOf(d, board_id) : d.statuses[s].name = column_name}
    IN IF ~\E c \in d.cards : c.id = card_id THEN [ok |-> TRUE, db |-> d, err |-> ""]
       ELSE IF hit = {} THEN [ok |-> FALSE, db |-> d, err |-> ErrNotNull]
       ELSE [ok |-> TRUE,
             db |-> [d EXCEPT !.cards =
                        {IF c.id = card_id
                         THEN [c EXCEPT !.status_id = CHOOSE s \in hit : TRUE]
                         ELSE c : c \in d.cards}],
             err |-> ""]

\* Repo::delete_card
delete_card(d, card_id) == [d EXCEPT !.cards = {c \in d.cards : c.id # card_id}]

\* -------------------------------------------------------- editor text format

\* A text is a sequence of lines (the text split at "\n"; a text that ends
\* in "\n" has an empty last line). A line is one of
\*   text  characters other than '=' and newline, not starting an item
\*   item  "- " followed by a column name
\*   rule  a run of '='
\*   blank the empty line
TextLine(s) == [k |-> "text", s |-> s]
ItemLine(s) == [k |-> "item", s |-> s]
RuleLine == [k |-> "rule", s |-> "=========="]
BlankLine == [k |-> "blank", s |-> ""]

\* the characters of an item line
Dashed == [c \in ColumnNames |-> IF c = "Todo" THEN "- Todo" ELSE "- Doing"]

\* the characters of a line
LineString(l) == IF l.k = "item" THEN Dashed[l.s] ELSE l.s

\* (?<name>[^=\n]+)\n=+\n\n matched at line i: a line without '=', a rule,
\* an empty line and the newline that ends it
HeaderAt(lines, i) ==
    /\ i + 3 <= Len(lines)
    /\ lines[i].k \in {"text", "item"}
    /\ lines[i + 1].k = "rule"
    /\ lines[i + 2].k = "blank"

\* the leftmost match of the header
FirstHeader(lines) ==
    IF \E i \in 1..Len(lines) : HeaderAt(lines, i)
    THEN CHOOSE i \in 1..Len(lines) :
            HeaderAt(lines, i) /\ \A j \in 1..(i - 1) : ~HeaderAt(lines, j)
    ELSE 0

RECURSIVE ItemsOf(_)
\* columns_regex.captures_iter: every "- <column>" of the text, in order
ItemsOf(lines) ==
    IF lines = <<>> THEN <<>>
    ELSE (IF Head(lines).k = "item" THEN <<Head(lines).s>> ELSE <<>>) \o ItemsOf(Tail(lines))

\* a parse_raw_card_text that takes a text without header as an untitled card
parse_raw_card_text_untitled(lines) ==
    LET i == FirstHeader(lines)
    IN IF i = 0
       THEN [ok |-> TRUE, title |-> "", body |-> [k \in 1..Len(lines) |-> LineString(lines[k])]]
       ELSE [ok |-> TRUE,
             title |-> LineString(lines[i]),
             body |-> [k \in 1..(Len(lines) - (i + 2)) |-> LineString(lines[k + i + 2])]]

\* parse_raw_card_text
parse_raw_card_text(lines) ==
    LET i == FirstHeader(lines)
    IN IF i = 0 THEN [ok |-> FALSE, err |-> "could not parse raw card text"]
       ELSE [ok |-> TRUE,
             title |-> LineString(lines[i]),
             body |-> [k \in 1..(Len(lines) - (i + 2)) |-> LineString(lines[k + i + 2])]]

\* parse_raw_board_text
parse_raw_board_text(lines) ==
    LET i == FirstHeader(lines)
    IN IF i = 0 THEN [ok |-> FALSE, err |-> "could not parse raw board text: bad board name"]
       ELSE IF ItemsOf(lines) = <<>>
            THEN [ok |-> FALSE, err |-> "could not parse raw board text: bad columns"]
            ELSE [ok |-> TRUE, name |-> LineString(lines[i]), columns |-> ItemsOf(lines)]

\* the card text "<title>\n==========\n\n<body>"
CardText(title, body) == <<TextLine(title), RuleLine, BlankLine>> \o body

\* the board text "<name>\n==========\n\n" and "- <column>\n" per column
BoardText(name, columns) ==
    <<TextLine(name), RuleLine, BlankLine>>
        \o [i \in 1..Len(columns) |-> ItemLine(columns[i])] \o <<BlankLine>>

\* column lists of up to two names, repeated names included
ColumnLists == {<<>>} \cup {<<a>> : a \in ColumnNames}
                 \cup {<<a, b>> : a \in ColumnNames, b \in ColumnNames}

\* run_editor fails (EDITOR unset, the temporary file unreadable)
EditorFailed == <<[k |-> "failed", s |-> "environment variable not found"]>>

\* what the editor hands back for a card
CardReplies ==
    {CardText(t, <<TextLine("body")>>) : t \in CardTitles} \cup {<<TextLine("bad input")>>}

\* what the editor hands back for a board
BoardReplies ==
    {BoardText(n, cs) : n \in BoardNames, cs \in ColumnLists}
        \cup {<<TextLine("bad input")>>, EditorFailed}

\* ------------------------------------------------------------------- Model

NoError == "None"
NoMessage == "None"

Modes == {"ViewingBoard", "ViewingCardDetail", "MovingCard", "ViewingBoards",
          "ConfirmCardDeletion"}

Messages == {"NavigateLeft", "NavigateDown", "NavigateUp", "NavigateRight", "Quit",
             "NewCard", "MoveCardMode", "MoveCardLeft", "MoveCardRight", "EditCard",
             "ViewBoardMode", "ViewCardDetailMode", "SetError", "ViewBoardsMode",
             "EditBoard", "NewBoard", "DeleteCard", "ConfirmChoice"}

\* the keys handle_event tells apart; "x" is any other key
Keys == {"h", "j", "k", "l", "q", "m", "n", "e", "d", "b", "Enter", "Esc",
         "Left", "Down", "Up", "Right", "x"}

\* handle_event for Event::KeyEvent: the message of a key in a mode
handle_event(key, mode) ==
    CASE mode = "ViewingBoard" ->
            (CASE key \in {"h", "Left"} -> "NavigateLeft"
               [] key \in {"j", "Down"} -> "NavigateDown"
               [] key \in {"k", "Up"} -> "NavigateUp"
               [] key \in {"l", "Right"} -> "NavigateRight"
               [] key = "q" -> "Quit"
               [] key = "m" -> "MoveCardMode"
               [] key = "n" -> "NewCard"
               [] key = "e" -> "EditCard"
               [] key = "d" -> "DeleteCard"
               [] key = "b" -> "ViewBoardsMode"
               [] key = "Enter" -> "ViewCardDetailMode"
               [] OTHER -> NoMessage)
      [] mode = "MovingCard" ->
            (CASE key \in {"h", "Left"} -> "MoveCardLeft"
               [] key \in {"l", "Right"} -> "MoveCardRight"
               [] key = "q" -> "Quit"
               [] key \in {"m", "Enter", "Esc"} -> "ViewBoardMode"
               [] OTHER -> NoMessage)
      [] mode = "ConfirmCardDeletion" ->
            (CASE key \in {"h", "Left"} -> "NavigateLeft"
               [] key \in {"l", "Right"} -> "NavigateRight"
               [] key = "Enter" -> "ConfirmChoice"
               [] OTHER -> NoMessage)
      [] mode = "ViewingCardDetail" ->
            (CASE key \in {"Enter", "Esc"} -> "ViewBoardMode"
               [] key = "e" -> "EditCard"
               [] key = "q" -> "Quit"
               [] OTHER -> NoMessage)
      [] mode = "ViewingBoards" ->
            (CASE key \in {"j", "Down"} -> "NavigateDown"
               [] key \in {"k", "Up"} -> "NavigateUp"
               [] key = "n" -> "NewBoard"
               [] key = "e" -> "EditBoard"
               [] key = "q" -> "Quit"
               [] key = "Enter" -> "ViewBoardMode"
               [] OTHER -> NoMessage)

NoSelection == [board_index |-> None, column_index |-> None, card_index |-> None]

\* Model::new and main() up to the loop: the models a start on database d
\* can give
Model_new(d) ==
    {[board_metas |-> <<>>,
      board |-> b,
      confirmation_state |-> "No",
      selected |->
        IF b # NoBoard
        THEN [board_index |-> None,
              column_index |-> IF b.columns # <<>> THEN 0 ELSE None,
              card_index |-> IF b.columns # <<>> /\ b.columns[1].cards # <<>>
                             THEN 0 ELSE None]
        ELSE NoSelection,
      mode |-> IF b # NoBoard THEN "ViewingBoard" ELSE "ViewingBoards",
      running_state |-> "Running",
      error |-> NoError] : b \in load_most_recently_viewed_board(d)}

\* the outcomes of one call of update: Ok(None), Err(e), or a panic; spawn
\* tells whether the call started a clear-error thread
Ok(m, d) == [model |-> m, db |-> d, res |-> "ok", spawn |-> FALSE]
Err(m, d, e) == [model |-> m, db |-> d, res |-> e, spawn |-> FALSE]
Panic(m, d) == [model |-> m, db |-> d, res |-> "panic", spawn |-> FALSE]

\* Model::selected_column is Some (the caller has checked that a board is
\* loaded, or the unwrap panics)
HasSelectedColumn(m) ==
    /\ IsSome(m.selected.column_index)
    /\ m.selected.column_index < Len(m.board.columns)

\* Model::selected_column
selected_column(m) == m.board.columns[m.selected.column_index + 1]

\* Model::selected_card is Some
HasSelectedCard(m) ==
    /\ IsSome(m.selected.card_index)
    /\ HasSelectedColumn(m)
    /\ m.selected.card_index < Len(selected_column(m).cards)

\* Model::selected_card
selected_card(m) == selected_column(m).cards[m.selected.card_index + 1]

\* Model::selected_card and selected_card_id unwrap self.board once the
\* card index is set
SelectedCardPanics(m) == IsSome(m.selected.card_index) /\ m.board = NoBoard

\* the card index after a move to a column of target_len cards from a column
\* of source_len cards
MovedCardIndex(m, source_len, target_len) ==
    IF target_len = 0 THEN None
    ELSE IF source_len = 0 THEN 0
    ELSE Min(SatSub(target_len, 1),
             IF IsSome(m.selected.card_index) THEN m.selected.card_index
             ELSE SatSub(target_len, 1))

\* a navigate_left that keeps the card index as it is
navigate_left_unclamped(m) ==
    IF m.board # NoBoard /\ IsSome(m.selected.column_index)
    THEN LET sci == m.selected.column_index
             left_column_id == SatSub(sci, 1)
             cols == m.board.columns
         IN IF left_column_id # sci /\ sci < Len(cols) /\ left_column_id < Len(cols)
            THEN [m EXCEPT !.selected.column_index = left_column_id]
            ELSE m
    ELSE m

\* Model::navigate_left
navigate_left(m) ==
    IF m.board # NoBoard /\ IsSome(m.selected.column_index)
    THEN LET sci == m.selected.column_index
             left_column_id == SatSub(sci, 1)
             cols == m.board.columns
         IN IF left_column_id # sci /\ sci < Len(cols) /\ left_column_id < Len(cols)
            THEN [m EXCEPT !.selected.column_index = left_column_id,
                           !.selected.card_index =
                                MovedCardIndex(m, Len(cols[sci + 1].cards),
                                               Len(cols[left_column_id + 1].cards))]
            ELSE m
    ELSE m

\* Model::navigate_right
navigate_right(m) ==
    IF m.board # NoBoard /\ IsSome(m.selected.column_index)
    THEN LET sci == m.selected.column_index
             right_column_id == sci + 1
             cols == m.board.columns
         IN IF right_column_id # sci /\ sci < Len(cols) /\ right_column_id < Len(cols)
            THEN [m EXCEPT !.selected.column_index = right_column_id,
                           !.selected.card_index =
                                MovedCardIndex(m, Len(cols[sci + 1].cards),
                                               Len(cols[right_column_id + 1].cards))]
            ELSE m
    ELSE m

\* the body of move_selected_card_left / _right once the target differs:
\* Vec::remove, set_card_status, Vec::insert(0), the cursor
move_selected_card_to(m, d, target) ==
    LET sci == m.selected.column_index
        sca == m.selected.card_index
        cols == m.board.columns
    IN IF sci >= Len(cols) \/ sca >= Len(cols[sci + 1].cards)
       THEN {Panic(m, d)}
       ELSE LET card == cols[sci + 1].cards[sca + 1]
                m1 == [m EXCEPT !.board.columns[sci + 1].cards = RemoveAt(@, sca)]
                r == set_card_status(d, m.board.id, card.id, cols[target + 1].name)
                m2 == [m1 EXCEPT !.board.columns[target + 1].cards = InsertFront(@, card),
                                 !.selected.card_index = 0,
                                 !.selected.column_index = target]
            IN {Err(m1, d, ErrIo)}
                 \cup {IF r.ok THEN Ok(m2, r.db) ELSE Err(m1, d, r.err)}

\* move_selected_card_left that wraps around: from the first column the card
\* goes to the last one
move_selected_card_left_wrap(m, d) ==
    IF m.board # NoBoard /\ IsSome(m.selected.column_index) /\ IsSome(m.selected.card_index)
    THEN LET left_column_id == IF m.selected.column_index = 0
                               THEN SatSub(Len(m.board.columns), 1)
                               ELSE m.selected.column_index - 1
         IN IF left_column_id # m.selected.column_index
            THEN move_selected_card_to(m, d, left_column_id)
            ELSE {Ok(m, d)}
    ELSE {Ok(m, d)}

\* Model::move_selected_card_left
move_selected_card_left(m, d) ==
    IF m.board # NoBoard /\ IsSome(m.selected.column_index) /\ IsSome(m.selected.card_index)
    THEN LET left_column_id == SatSub(m.selected.column_index, 1)
         IN IF left_column_id # m.selected.column_index
            THEN move_selected_card_to(m, d, left_column_id)
            ELSE {Ok(m, d)}
    ELSE {Ok(m, d)}

\* Model::move_selected_card_right
move_selected_card_right(m, d) ==
    IF m.board # NoBoard /\ IsSome(m.selected.column_index) /\ IsSome(m.selected.card_index)
    THEN LET right_column_index ==
                Min(m.selected.column_index + 1, SatSub(Len(m.board.columns), 1))
         IN IF right_column_index # m.selected.column_index
            THEN move_selected_card_to(m, d, right_column_index)
            ELSE {Ok(m, d)}
    ELSE {Ok(m, d)}

\* a toggle that only ever selects Yes
toggle_stuck(c) == "Yes"

\* ConfirmationState::toggle
toggle(c) == IF c = "Yes" THEN "No" ELSE "Yes"

\* a switch_to_viewing_boards_mode that leaves the board index as it was
switch_to_viewing_boards_mode_unselected(m, d) ==
    LET m1 == [m EXCEPT !.mode = "ViewingBoards"]
    IN {Ok([m1 EXCEPT !.board_metas = metas,
                            !.board = NoBoard,
                            !.selected.card_index = None,
                            !.selected.column_index = None],
                  d) : metas \in get_board_metas(d)}

\* Model::switch_to_viewing_boards_mode
switch_to_viewing_boards_mode(m, d) ==
    LET m1 == [m EXCEPT !.mode = "ViewingBoards"]
    IN {Ok([m1 EXCEPT !.board_metas = metas,
                            !.board = NoBoard,
                            !.selected.card_index = None,
                            !.selected.column_index = None,
                            !.selected.board_index =
                                IF metas # <<>> THEN 0 ELSE m.selected.board_index],
                  d) : metas \in get_board_metas(d)}

\* Model::load_selected_board
load_selected_board(m, d, t) ==
    IF IsSome(m.selected.board_index)
    THEN IF m.selected.board_index >= Len(m.board_metas)
         THEN {Panic(m, d)}
         ELSE LET board_id == m.board_metas[m.selected.board_index + 1].id
                  d1 == load_board_stamp(d, board_id, t)
              IN {IF b.columns = <<>> THEN Panic(m, d1)
                         ELSE Ok([m EXCEPT !.selected.board_index = None,
                                           !.selected.column_index = 0,
                                           !.selected.card_index =
                                                IF b.columns[1].cards # <<>> THEN 0 ELSE None,
                                           !.board_metas = <<>>,
                                           !.board = b],
                                 d1) : b \in load_board(d1, board_id)}
    ELSE {Ok(m, d)}

\* Model::create_board without the test for an empty column list
Model_create_board_unchecked(m, d, name, column_names, t) ==
    LET r == Repo_create_board(d, name, column_names, t)
    IN IF r.ok
       THEN {Ok([m EXCEPT !.board_metas = metas], r.db) : metas \in get_board_metas(r.db)}
       ELSE {Err(m, r.db, r.err)}

\* Model::create_board
Model_create_board(m, d, name, column_names, t) ==
    IF column_names # <<>>
    THEN LET r == Repo_create_board(d, name, column_names, t)
         IN IF r.ok
            THEN {Ok([m EXCEPT !.board_metas = metas], r.db) :
                      metas \in get_board_metas(r.db)}
            ELSE {Err(m, r.db, r.err)}
    ELSE {Err(m, d, "Board must have at least 1 column")}

\* Model::update_selected_board (the caller has unwrapped board_index)
update_selected_board(m, d, new_board_name, new_column_names, t) ==
    LET selected_board == m.board_metas[m.selected.board_index + 1]
    IN IF Range(selected_board.columns) \subseteq Range(new_column_names)
       THEN LET r == update_board_columns_order_tx(d, selected_board.id, new_board_name,
                                                   new_column_names)
                d1 == load_board_stamp(r.db, selected_board.id, t)
            IN IF r.ok
               THEN {Ok([m EXCEPT !.board_metas = metas], d1) : metas \in get_board_metas(d1)}
               ELSE {Err(m, r.db, r.err)}
       ELSE {Err(m, d, "Could not update board: columns do not match")}

\* a delete_selected_card that leaves the card index where it was
card_index_kept(card_index, len) == card_index

\* the card index Model::delete_selected_card leaves after Vec::remove, for
\* a column now holding len cards
card_index_after_delete(card_index, len) ==
    IF SatSub(len, 1) < card_index THEN SatSub(len, 1) ELSE card_index

\* Model::delete_selected_card
delete_selected_card(m, d) ==
    IF SelectedCardPanics(m) THEN {Panic(m, d)}
    ELSE IF HasSelectedCard(m)
    THEN LET sci == m.selected.column_index
             sca == m.selected.card_index
             cards == RemoveAt(selected_column(m).cards, sca)
         IN {Err(m, d, ErrIo),
             Ok([m EXCEPT !.board.columns[sci + 1].cards = cards,
                          !.selected.card_index = card_index_after_delete(sca, Len(cards))],
                delete_card(d, selected_card(m).id))}
    ELSE {Ok(m, d)}

RECURSIVE InsertSortedDesc(_, _)
\* a card put at its place in a list ordered by id, largest first
InsertSortedDesc(cards, card) ==
    IF cards = <<>> THEN <<card>>
    ELSE IF card.id >= Head(cards).id THEN <<card>> \o cards
    ELSE <<Head(cards)>> \o InsertSortedDesc(Tail(cards), card)

\* a sort that leaves the list as it is
SortKept(cards) == cards

RECURSIVE SortDescById(_)
\* sort_unstable_by(|a, b| b.id.cmp(&a.id)); ids in one list are distinct
SortDescById(cards) ==
    IF cards = <<>> THEN <<>>
    ELSE InsertSortedDesc(SortDescById(Tail(cards)), Head(cards))

\* an add_card_to_selected_column that pushes the card and does not sort
add_card_pushed(m, card) ==
    IF HasSelectedColumn(m)
    THEN [m EXCEPT !.board.columns[m.selected.column_index + 1].cards = Append(@, card)]
    ELSE m

\* Model::add_card_to_selected_column (a board is loaded)
add_card_to_selected_column(m, card) ==
    IF HasSelectedColumn(m)
    THEN [m EXCEPT !.board.columns[m.selected.column_index + 1].cards =
                        SortDescById(Append(@, card))]
    ELSE m

\* ------------------------------------------------------------------ update

\* Message::EditCard in ViewingBoard and ViewingCardDetail: the card through
\* the editor, parse_raw_card_text, Repo::update_card, then the cached card
edit_selected_card(m, d, reply) ==
    IF SelectedCardPanics(m) THEN {Panic(m, d)}
    ELSE IF HasSelectedCard(m)
    THEN IF reply = EditorFailed THEN {Err(m, d, reply[1].s)}
         ELSE LET p == parse_raw_card_text(reply)
              IN IF ~p.ok THEN {Err(m, d, p.err)}
                 ELSE {Ok([m EXCEPT !.board.columns[m.selected.column_index + 1]
                                        .cards[m.selected.card_index + 1] =
                                            [@ EXCEPT !.title = p.title, !.body = p.body]],
                          update_card(d, selected_card(m).id, p.title, p.body))}
    ELSE {Ok(m, d)}

\* Message::NewCard
new_card(m, d, reply) ==
    IF reply = EditorFailed THEN {Err(m, d, reply[1].s)}
    ELSE LET p == parse_raw_card_text(reply)
         IN IF ~p.ok THEN {Err(m, d, p.err)}
            ELSE IF m.board = NoBoard THEN {Panic(m, d)}
            ELSE {Ok(add_card_to_selected_column(
                                [m EXCEPT !.mode = "ViewingBoard",
                                          !.selected.column_index = 0,
                                          !.selected.card_index = 0],
                                r.card),
                            r.db) : r \in insert_card(d, m.board.id, p.title, p.body)}

\* update, Mode::ViewingBoard
update_ViewingBoard(m, d, t, msg, arg) ==
    CASE msg = "ViewBoardsMode" -> switch_to_viewing_boards_mode(m, d)
      [] msg = "MoveCardMode" ->
            {Ok(IF IsSome(m.selected.card_index) THEN [m EXCEPT !.mode = "MovingCard"] ELSE m, d)}
      [] msg = "ViewCardDetailMode" ->
            IF m.board = NoBoard THEN {Panic(m, d)}
            ELSE {Ok(IF HasSelectedColumn(m) /\ selected_column(m).cards # <<>>
                     THEN [m EXCEPT !.mode = "ViewingCardDetail"] ELSE m, d)}
      [] msg = "Quit" -> {Ok([m EXCEPT !.running_state = "Done"], d)}
      [] msg = "NavigateLeft" -> {Ok(navigate_left(m), d)}
      [] msg = "NavigateDown" ->
            IF ~IsSome(m.selected.card_index) THEN {Ok(m, d)}
            ELSE IF m.board = NoBoard THEN {Panic(m, d)}
            ELSE {Ok([m EXCEPT !.selected.card_index =
                        IF HasSelectedColumn(m)
                        THEN Min(@ + 1, SatSub(Len(selected_column(m).cards), 1))
                        ELSE @ + 1], d)}
      [] msg = "NavigateUp" ->
            {Ok(IF IsSome(m.selected.card_index)
                THEN [m EXCEPT !.selected.card_index = SatSub(@, 1)] ELSE m, d)}
      [] msg = "NavigateRight" -> {Ok(navigate_right(m), d)}
      [] msg = "NewCard" -> new_card(m, d, arg)
      [] msg = "EditCard" ->
            {IF r.res = "ok" THEN Ok([r.model EXCEPT !.mode = "ViewingBoard"], r.db) ELSE r :
                r \in edit_selected_card(m, d, arg)}
      [] msg = "DeleteCard" -> {Ok([m EXCEPT !.mode = "ConfirmCardDeletion"], d)}
      [] msg = "SetError" -> {[Ok([m EXCEPT !.error = arg], d) EXCEPT !.spawn = TRUE]}
      [] OTHER -> {Panic(m, d)}

\* update, Mode::ViewingCardDetail
update_ViewingCardDetail(m, d, t, msg, arg) ==
    CASE msg = "ViewBoardMode" -> {Ok([m EXCEPT !.mode = "ViewingBoard"], d)}
      [] msg = "Quit" -> {Ok([m EXCEPT !.running_state = "Done"], d)}
      [] msg = "EditCard" -> edit_selected_card(m, d, arg)
      [] OTHER -> {Panic(m, d)}

\* update, Mode::MovingCard
update_MovingCard(m, d, t, msg, arg) ==
    CASE msg = "MoveCardLeft" -> move_selected_card_left(m, d)
      [] msg = "MoveCardRight" -> move_selected_card_right(m, d)
      [] msg = "ViewBoardMode" ->
            {Ok(IF m.board # NoBoard
                THEN [m EXCEPT !.mode = "ViewingBoard",
                               !.board.columns =
                                    [i \in 1..Len(@) |->
                                        [@[i] EXCEPT !.cards = SortDescById(@)]]]
                ELSE [m EXCEPT !.mode = "ViewingBoard"], d)}
      [] OTHER -> {Panic(m, d)}

\* an update for ConfirmCardDeletion that leaves the confirmation at Yes after
\* the deletion
update_ConfirmCardDeletion_keep(m, d, t, msg, arg) ==
    CASE msg = "ConfirmChoice" ->
            IF m.confirmation_state = "Yes"
            THEN {IF r.res = "ok"
                  THEN Ok([r.model EXCEPT !.mode = "ViewingBoard"], r.db)
                  ELSE r : r \in delete_selected_card(m, d)}
            ELSE {Ok([m EXCEPT !.mode = "ViewingBoard"], d)}
      [] msg \in {"NavigateLeft", "NavigateRight"} ->
            {Ok([m EXCEPT !.confirmation_state = toggle(@)], d)}
      [] msg = "ViewBoardMode" -> {Ok([m EXCEPT !.mode = "ViewingBoard"], d)}
      [] OTHER -> {Panic(m, d)}

\* update, Mode::ConfirmCardDeletion
update_ConfirmCardDeletion(m, d, t, msg, arg) ==
    CASE msg = "ConfirmChoice" ->
            IF m.confirmation_state = "Yes"
            THEN {IF r.res = "ok"
                  THEN Ok([r.model EXCEPT !.mode = "ViewingBoard",
                                          !.confirmation_state = "No"], r.db)
                  ELSE r : r \in delete_selected_card(m, d)}
            ELSE {Ok([m EXCEPT !.mode = "ViewingBoard"], d)}
      [] msg \in {"NavigateLeft", "NavigateRight"} ->
            {Ok([m EXCEPT !.confirmation_state = toggle(@)], d)}
      [] msg = "ViewBoardMode" -> {Ok([m EXCEPT !.mode = "ViewingBoard"], d)}
      [] OTHER -> {Panic(m, d)}

\* Message::NewBoard
new_board(m, d, t, reply) ==
    IF reply = EditorFailed THEN {Err(m, d, reply[1].s)}
    ELSE LET p == parse_raw_board_text(reply)
         IN IF ~p.ok THEN {Err(m, d, p.err)}
            ELSE {IF r.res = "ok"
                  THEN Ok([r.model EXCEPT !.selected.board_index = 0,
                                          !.selected.column_index = 0], r.db)
                  ELSE r : r \in Model_create_board(m, d, p.name, p.columns, t)}

\* Message::EditBoard
edit_board(m, d, t, reply) ==
    IF ~IsSome(m.selected.board_index) \/ m.selected.board_index >= Len(m.board_metas)
    THEN {Panic(m, d)}
    ELSE IF reply = EditorFailed THEN {Err(m, d, reply[1].s)}
    ELSE LET p == parse_raw_board_text(reply)
         IN IF ~p.ok THEN {Err(m, d, p.err)}
            ELSE update_selected_board(m, d, p.name, p.columns, t)

\* update, Mode::ViewingBoards
update_ViewingBoards(m, d, t, msg, arg) ==
    CASE msg = "NavigateUp" ->
            {Ok(IF IsSome(m.selected.board_index)
                THEN [m EXCEPT !.selected.board_index = SatSub(@, 1)] ELSE m, d)}
      [] msg = "NavigateDown" ->
            {Ok(IF IsSome(m.selected.board_index)
                THEN [m EXCEPT !.selected.board_index =
                                    Min(SatSub(Len(m.board_metas), 1), @ + 1)]
                ELSE m, d)}
      [] msg = "NewBoard" -> new_board(m, d, t, arg)
      [] msg = "EditBoard" -> edit_board(m, d, t, arg)
      [] msg = "ViewBoardMode" ->
            load_selected_board([m EXCEPT !.mode = "ViewingBoard"], d, t)
      [] msg = "Quit" -> {Ok([m EXCEPT !.running_state = "Done"], d)}
      [] OTHER -> {Panic(m, d)}

\* update_with_run_editor_fn: the outcomes of message msg on model m and
\* database d at time t; arg is the editor's text, or SetError's payload
update(m, d, t, msg, arg) ==
    CASE m.mode = "ViewingBoard" -> update_ViewingBoard(m, d, t, msg, arg)
      [] m.mode = "ViewingCardDetail" -> update_ViewingCardDetail(m, d, t, msg, arg)
      [] m.mode = "MovingCard" -> update_MovingCard(m, d, t, msg, arg)
      [] m.mode = "ConfirmCardDeletion" -> update_ConfirmCardDeletion(m, d, t, msg, arg)
      [] m.mode = "ViewingBoards" -> update_ViewingBoards(m, d, t, msg, arg)

\* --------------------------------------------------------------- event loop

\* history: the external ids of the cards rows d2 has and d has not, added
\* to their boards' logs in the order of their row ids
RECURSIVE ExternalIdsOf(_)
ExternalIdsOf(rows) ==
    IF rows = {} THEN <<>>
    ELSE LET first == CHOOSE c \in rows : \A o \in rows : c.id <= o.id
         IN <<first.external_id>> \o ExternalIdsOf(rows \ {first})

LogInserts(d, d2, log) ==
    [b \in BoardIds(d2) |->
        (IF b \in DOMAIN log THEN log[b] ELSE <<>>)
            \o ExternalIdsOf({c \in d2.cards :
                    c.board_id = b /\ ~\E o \in d.cards : o.id = c.id})]

\* the processes that share the database file in SpecTx
Procs == {1, 2}

\* no transaction is open: the write lock is free and each process is outside
\* insert_card; commits counts the insert_card calls that returned Ok
NoTx == [lock |-> 0,
         commits |-> <<>>,
         procs |-> [p \in Procs |-> [pc |-> "idle", res |-> "none", board_id |-> 0,
                                      status_id |-> 0, external_card_id |-> 0,
                                      snap |-> EmptyDb]]]

RECURSIVE SumCounters(_, _)
\* the cards ever inserted into boards 1..n: each counter starts at 1
SumCounters(d, n) ==
    IF n = 0 THEN 0 ELSE (d.boards[n].card_id - 1) + SumCounters(d, n - 1)

\* main(): the loop is at receive_event
Ready == ~aborted /\ model.running_state = "Running" /\ current_msg = NoMessage

\* receive_event: some key press gives msg in the current mode
Offered(msg) == Ready /\ \E key \in Keys : handle_event(key, model.mode) = msg

\* the memory of a process that a panic has ended: the model and the timer
\* threads are gone, the database file is what remains
Gone == [board_metas |-> <<>>, board |-> NoBoard, selected |-> NoSelection,
         mode |-> "ViewingBoards", running_state |-> "Done",
         confirmation_state |-> "No", error |-> NoError]

\* one call of update with outcome r, of which `taken` ClearError events
\* were received: Err(e) becomes current_msg = SetError(Some(e)), a spawned
\* thread is one more timer (not counted beyond MaxTimers), a panic ends the
\* process
Apply(r, taken) ==
    /\ db' = r.db
    /\ ext_log' = LogInserts(db, r.db, ext_log)
    /\ aborted' = (r.res = "panic")
    /\ IF r.res = "panic"
       THEN /\ model' = Gone
            /\ current_msg' = NoMessage
            /\ internal_events' = 0
            /\ timers' = 0
       ELSE /\ model' = r.model
            /\ current_msg' = IF r.res = "ok" THEN NoMessage ELSE r.res
            /\ internal_events' = internal_events - taken
            /\ timers' = IF r.spawn /\ timers + (internal_events - taken) < MaxTimers
                         THEN timers + 1 ELSE timers
    /\ UNCHANGED <<now, tx>>

\* the call of update on msg with the editor's reply arg
Dispatch(msg, arg) == \E r \in update(model, db, now, msg, arg) : Apply(r, 0)

NavigateLeft == Offered("NavigateLeft") /\ Dispatch("NavigateLeft", <<>>)
NavigateDown == Offered("NavigateDown") /\ Dispatch("NavigateDown", <<>>)
NavigateUp == Offered("NavigateUp") /\ Dispatch("NavigateUp", <<>>)
NavigateRight == Offered("NavigateRight") /\ Dispatch("NavigateRight", <<>>)
Quit == Offered("Quit") /\ Dispatch("Quit", <<>>)
MoveCardMode == Offered("MoveCardMode") /\ Dispatch("MoveCardMode", <<>>)
MoveCardLeft == Offered("MoveCardLeft") /\ Dispatch("MoveCardLeft", <<>>)
MoveCardRight == Offered("MoveCardRight") /\ Dispatch("MoveCardRight", <<>>)
ViewBoardMode == Offered("ViewBoardMode") /\ Dispatch("ViewBoardMode", <<>>)
ViewCardDetailMode == Offered("ViewCardDetailMode") /\ Dispatch("ViewCardDetailMode", <<>>)
ViewBoardsMode == Offered("ViewBoardsMode") /\ Dispatch("ViewBoardsMode", <<>>)
DeleteCard == Offered("DeleteCard") /\ Dispatch("DeleteCard", <<>>)
ConfirmChoice == Offered("ConfirmChoice") /\ Dispatch("ConfirmChoice", <<>>)

\* the rows created so far: boards, columns, and cards ever inserted
RowsCreated(d) == Len(d.boards) + Len(d.statuses) + SumCounters(d, Len(d.boards))

\* the editor's text for a new card, while the store stays within MaxRows
NewCard ==
    /\ Offered("NewCard")
    /\ \E reply \in CardReplies :
           Dispatch("NewCard", reply) /\ RowsCreated(db') <= MaxRows

EditCard == Offered("EditCard") /\ \E reply \in CardReplies : Dispatch("EditCard", reply)

\* the editor's text for a new board, while the store stays within MaxBoards
\* and MaxRows
NewBoard ==
    /\ Offered("NewBoard")
    /\ Len(db.boards) < MaxBoards
    /\ \E reply \in BoardReplies :
           Dispatch("NewBoard", reply) /\ RowsCreated(db') <= MaxRows

\* the editor's text for the selected board, while the store stays within
\* MaxRows
EditBoard ==
    /\ Offered("EditBoard")
    /\ \E reply \in BoardReplies :
           Dispatch("EditBoard", reply) /\ RowsCreated(db') <= MaxRows

\* main(): Err(e) => current_msg = Some(Message::SetError(Some(e.to_string())))
SetError ==
    /\ ~aborted
    /\ current_msg # NoMessage
    /\ \E r \in update(model, db, now, "SetError", current_msg) : Apply(r, 0)

\* receive_event: no key within the poll, try_recv gives ClearError, which
\* handle_event turns into SetError(None)
ClearError ==
    /\ Ready
    /\ internal_events > 0
    /\ \E r \in update(model, db, now, "SetError", NoError) : Apply(r, 1)

\* the thread spawned by SetError: sleep 10 s, then send ClearError
TimerFires ==
    /\ ~aborted
    /\ model.running_state = "Running"
    /\ timers > 0
    /\ timers' = timers - 1
    /\ internal_events' = internal_events + 1
    /\ UNCHANGED <<db, now, model, current_msg, aborted, ext_log, tx>>

\* a second passes
Tick ==
    /\ now < MaxClock
    /\ now' = now + 1
    /\ UNCHANGED <<db, model, current_msg, aborted, timers, internal_events, ext_log, tx>>

\* the program is started again on the database the last run left
Restart ==
    /\ aborted \/ model.running_state = "Done"
    /\ model' \in Model_new(db)
    /\ aborted' = FALSE
    /\ current_msg' = NoMessage
    /\ timers' = 0
    /\ internal_events' = 0
    /\ UNCHANGED <<db, now, ext_log, tx>>

Init ==
    /\ db = EmptyDb
    /\ now = 0
    /\ model \in Model_new(EmptyDb)
    /\ current_msg = NoMessage
    /\ aborted = FALSE
    /\ timers = 0
    /\ internal_events = 0
    /\ ext_log = <<>>
    /\ tx = NoTx

Next ==
    \/ NavigateLeft \/ NavigateDown \/ NavigateUp \/ NavigateRight
    \/ Quit
    \/ NewCard \/ EditCard \/ DeleteCard \/ ConfirmChoice
    \/ MoveCardMode \/ MoveCardLeft \/ MoveCardRight
    \/ ViewBoardMode \/ ViewCardDetailMode \/ ViewBoardsMode
    \/ NewBoard \/ EditBoard
    \/ SetError \/ ClearError \/ TimerFires
    \/ Tick \/ Restart

Spec == Init /\ [][Next]_vars

\* ---------------------------------------------------- the Store called alone

\* the column lists the Store is called with: those of the event loop, and
\* lists with a name that holds '|'
StoreColumnLists == ColumnLists \cup {<<PipeName>>, <<"Todo", PipeName>>}

\* Repo::create_board called with any name and column list
CallCreateBoard ==
    /\ Len(db.boards) < MaxBoards
    /\ \E name \in BoardNames, column_names \in StoreColumnLists :
           LET r == Repo_create_board(db, name, column_names, now)
           IN /\ db' = r.db
              /\ ext_log' = LogInserts(db, r.db, ext_log)
    /\ UNCHANGED <<now, model, current_msg, aborted, timers, internal_events, tx>>

\* Repo::insert_card called on any board; on a board without columns the first
\* query_one finds no row and the call returns Err
CallInsertCard ==
    /\ \E board_id \in BoardIds(db), title \in CardTitles :
           /\ insert_card_counter(db, board_id) <= MaxInserts
           /\ LET rs == insert_card(db, board_id, title, <<TextLine("body")>>)
              IN IF rs = {} THEN db' = db /\ ext_log' = ext_log
                 ELSE \E r \in rs : /\ db' = r.db
                                     /\ ext_log' = LogInserts(db, r.db, ext_log)
    /\ UNCHANGED <<now, model, current_msg, aborted, timers, internal_events, tx>>

\* Repo::delete_card called on any stored card
CallDeleteCard ==
    /\ \E c \in db.cards : db' = delete_card(db, c.id)
    /\ ext_log' = LogInserts(db, db', ext_log)
    /\ UNCHANGED <<now, model, current_msg, aborted, timers, internal_events, tx>>

NextStore == CallCreateBoard \/ CallInsertCard \/ CallDeleteCard

SpecStore == Init /\ [][NextStore]_vars

\* the event loop with its scheduling: a spawned timer thread sends its
\* ClearError, main() feeds a returned error back at once, and receive_event
\* gets to try_recv again and again (no key arrives within some poll)
SpecLive ==
    /\ Init /\ [][Next]_vars
    /\ WF_vars(TimerFires) /\ WF_vars(SetError) /\ SF_vars(ClearError)

\* ------------------------------------- insert_card in two processes, by steps

\* the database the two processes open: two boards, no cards
TxDb ==
    Repo_create_board(
        Repo_create_board(EmptyDb, "Board1", <<"Todo", "Doing">>, 0).db,
        "Board2", <<"Doing">>, 0).db

\* a transaction that takes no lock when it begins (deferred)
begin_deferred(t, p) == TRUE

\* transaction_with_behavior(Immediate): BEGIN IMMEDIATE gets the write lock
\* only while no other connection holds it
begin_immediate(t, p) == t.lock = 0

\* process p is inside insert_card, at the statement after `at`
TxAt(p, at) == tx.procs[p].pc = at

\* process p moves to pc with its transaction's view of the database d
TxStep(p, pc, d) ==
    /\ tx' = [tx EXCEPT !.procs[p].pc = pc, !.procs[p].snap = d]
    /\ UNCHANGED <<db, now, model, current_msg, aborted, timers, internal_events, ext_log>>

\* insert_card is called and its transaction begins
TxBegin ==
    \E p \in Procs, board_id \in BoardIds(db) :
        /\ TxAt(p, "idle")
        /\ insert_card_counter(db, board_id) <= MaxInserts
        /\ begin_immediate(tx, p)
        /\ tx' = [tx EXCEPT !.lock = p,
                            !.procs[p] = [pc |-> "begun", res |-> "none",
                                          board_id |-> board_id, status_id |-> 0,
                                          external_card_id |-> 0, snap |-> db]]
        /\ UNCHANGED <<db, now, model, current_msg, aborted, timers, internal_events, ext_log>>

\* the lock is held by the other process for longer than busy_timeout: the
\* call returns Err without a transaction
TxBusy ==
    \E p \in Procs :
        /\ TxAt(p, "idle")
        /\ ~begin_immediate(tx, p)
        /\ tx' = [tx EXCEPT !.procs[p].res = "err"]
        /\ UNCHANGED <<db, now, model, current_msg, aborted, timers, internal_events, ext_log>>

\* select id from statuses ... order by column_order asc limit 1
TxReadStatus ==
    \E p \in Procs :
        /\ TxAt(p, "begun")
        /\ \E s \in insert_card_status(tx.procs[p].snap, tx.procs[p].board_id) :
               /\ tx' = [tx EXCEPT !.procs[p].pc = "status", !.procs[p].status_id = s]
               /\ UNCHANGED <<db, now, model, current_msg, aborted, timers,
                              internal_events, ext_log>>

\* select card_id from boards
TxReadCounter ==
    \E p \in Procs :
        /\ TxAt(p, "status")
        /\ tx' = [tx EXCEPT !.procs[p].pc = "counter",
                            !.procs[p].external_card_id =
                                insert_card_counter(tx.procs[p].snap, tx.procs[p].board_id)]
        /\ UNCHANGED <<db, now, model, current_msg, aborted, timers, internal_events, ext_log>>

\* insert into cards ... returning
TxInsert ==
    \E p \in Procs, title \in CardTitles :
        /\ TxAt(p, "counter")
        /\ TxStep(p, "inserted",
                  insert_card_row(tx.procs[p].snap, tx.procs[p].board_id,
                                  tx.procs[p].status_id, tx.procs[p].external_card_id,
                                  title, <<TextLine("body")>>))

\* update boards set card_id = card_id + 1
TxBump ==
    \E p \in Procs :
        /\ TxAt(p, "inserted")
        /\ TxStep(p, "bumped", insert_card_bump(tx.procs[p].snap, tx.procs[p].board_id))

\* tx.commit(): the transaction's writes become the database, the lock is
\* released, insert_card returns Ok(card)
TxCommit ==
    \E p \in Procs :
        /\ TxAt(p, "bumped")
        /\ db' = tx.procs[p].snap
        /\ ext_log' = LogInserts(db, db', ext_log)
        /\ tx' = [tx EXCEPT !.lock = 0,
                            !.commits[tx.procs[p].board_id] = @ + 1,
                            !.procs[p].pc = "idle",
                            !.procs[p].res = "ok",
                            !.procs[p].snap = EmptyDb]
        /\ UNCHANGED <<now, model, current_msg, aborted, timers, internal_events>>

\* a statement or the commit fails: `?` returns, tx is dropped and rolls back
TxRollback ==
    \E p \in Procs :
        /\ tx.procs[p].pc \in {"begun", "status", "counter", "inserted", "bumped"}
        /\ tx' = [tx EXCEPT !.lock = IF @ = p THEN 0 ELSE @,
                            !.procs[p].pc = "idle",
                            !.procs[p].res = "err",
                            !.procs[p].snap = EmptyDb]
        /\ UNCHANGED <<db, now, model, current_msg, aborted, timers, internal_events, ext_log>>

InitTx ==
    /\ db = TxDb
    /\ now = 0
    /\ model = Gone
    /\ current_msg = NoMessage
    /\ aborted = FALSE
    /\ timers = 0
    /\ internal_events = 0
    /\ ext_log = [b \in BoardIds(TxDb) |-> <<>>]
    /\ tx = [NoTx EXCEPT !.commits = [b \in BoardIds(TxDb) |-> 0]]

NextTx ==
    \/ TxBegin \/ TxBusy
    \/ TxReadStatus \/ TxReadCounter \/ TxInsert \/ TxBump
    \/ TxCommit \/ TxRollback

SpecTx == InitTx /\ [][NextTx]_vars

\* ------------------------------------------------------------------ claims

\* what the next call of update can give for msg and the editor's reply arg
Outcomes(msg, arg) == update(model, db, now, msg, arg)

\* the column lists create_board accepts: not empty, no name twice
ValidColumnLists == {cs \in ColumnLists : cs # <<>> /\ Cardinality(Range(cs)) = Len(cs)}

\* the stored cards of a board
CardsOfBoard(d, board_id) == {c \in d.cards : c.board_id = board_id}

\* C1: on every board the k-th card ever inserted has external id k, whatever
\* was deleted since and whatever was inserted into other boards, and the
\* board's next external id is one more than the number of cards ever
\* inserted into it
C1_ExternalIdsCountInsertions ==
    \A b \in BoardIds(db) :
        /\ b \in DOMAIN ext_log
        /\ \A k \in 1..Len(ext_log[b]) : ext_log[b][k] = k
        /\ insert_card_counter(db, b) = Len(ext_log[b]) + 1

\* C1 is reached: two cards were inserted into one board and the first of
\* them deleted, and a card was inserted into another board
C1_Witness ==
    \E b \in BoardIds(db), o \in BoardIds(db) :
        /\ b # o
        /\ Len(ext_log[b]) = 2
        /\ Len(ext_log[o]) = 1
        /\ {c.external_id : c \in CardsOfBoard(db, b)} = {2}

\* C2: with two processes running insert_card step by step, the committed
\* cards of a board have pairwise distinct external ids that are exactly
\* 1..n for the n committed inserts, and the board's counter is n + 1
C2_ConcurrentInsertsSerialized ==
    \A b \in DOMAIN tx.commits :
        /\ Cardinality(CardsOfBoard(db, b)) = tx.commits[b]
        /\ {c.external_id : c \in CardsOfBoard(db, b)} = 1..tx.commits[b]
        /\ insert_card_counter(db, b) = tx.commits[b] + 1

\* C2 is reached: both processes have committed an insert into the same
\* board, and one of them is inside its next transaction while the other was
\* refused the lock
C2_Witness ==
    \E b \in DOMAIN tx.commits, p \in Procs, q \in Procs :
        /\ p # q
        /\ tx.commits[b] = 2
        /\ \E c \in CardsOfBoard(db, b) : c.title = "Title1"
        /\ \E c \in CardsOfBoard(db, b) : c.title = "Title2"
        /\ tx.procs[p].pc = "inserted"
        /\ tx.procs[q].res = "err"

\* the errors the Store raises and the errors the two parsers raise
StoreErrors == {ErrUnique, ErrNotNull, ErrIo}
ParseErrors == {"could not parse raw card text",
                "could not parse raw board text: bad board name",
                "could not parse raw board text: bad columns"}

\* C3, as the spec states it: whenever update has returned a Store-raised or
\* parse-raised error, in whatever mode, the event loop's SetError step
\* stores it as the banner and the session keeps running
C3_FailuresBecomeBanners ==
    (~aborted /\ current_msg \in StoreErrors \cup ParseErrors) =>
        \A r \in Outcomes("SetError", current_msg) :
            /\ r.res = "ok"
            /\ r.model.error = current_msg
            /\ r.model.running_state = "Running"

\* C4, as the spec states it: in every mode in which a key gives Quit, the
\* Quit message sets the running flag to Done and changes nothing else
C4_QuitSetsDone ==
    Offered("Quit") =>
        Outcomes("Quit", <<>>) = {Ok([model EXCEPT !.running_state = "Done"], db)}

\* C5, as the spec states it: while a board is loaded the column index is
\* that of a column, and the card index is None when that column has no cards
C5_CursorInvariant ==
    (~aborted /\ model.board # NoBoard) =>
        /\ HasSelectedColumn(model)
        /\ selected_column(model).cards = <<>> => model.selected.card_index = None

\* C6, as the spec states it: a confirmed deletion of the only card of the
\* selected column leaves the column empty and the card index None
C6_DeleteOnlyCard ==
    (/\ Offered("ConfirmChoice")
     /\ model.confirmation_state = "Yes"
     /\ HasSelectedCard(model)
     /\ Len(selected_column(model).cards) = 1) =>
        \A r \in Outcomes("ConfirmChoice", <<>>) :
            r.res = "ok" =>
                /\ selected_column(r.model).cards = <<>>
                /\ r.model.selected.card_index = None

\* C7: in ConfirmCardDeletion with a card selected, a left/right message
\* flips the confirmation and nothing else, so that two of them restore the
\* state; confirm on No only returns to ViewingBoard, the card staying in
\* memory and in the Store; confirm on Yes, when delete_card succeeds,
\* removes exactly that card from the in-memory column and from the Store
\* and returns to ViewingBoard
C7_ConfirmCardDeletion ==
    (Ready /\ model.mode = "ConfirmCardDeletion" /\ HasSelectedCard(model)) =>
        LET sci == model.selected.column_index
            sca == model.selected.card_index
            id == selected_card(model).id
        IN /\ \A msg \in {"NavigateLeft", "NavigateRight"} :
                \A r \in Outcomes(msg, <<>>) :
                    /\ r.res = "ok" /\ r.db = db
                    /\ r.model.confirmation_state # model.confirmation_state
                    /\ [r.model EXCEPT !.confirmation_state = model.confirmation_state] = model
                    /\ \A msg2 \in {"NavigateLeft", "NavigateRight"} :
                          update(r.model, r.db, now, msg2, <<>>) = {Ok(model, db)}
           /\ model.confirmation_state = "No" =>
                /\ Outcomes("ConfirmChoice", <<>>) = {Ok([model EXCEPT !.mode = "ViewingBoard"], db)}
                /\ \E c \in db.cards : c.id = id
           /\ model.confirmation_state = "Yes" =>
                /\ \E r \in Outcomes("ConfirmChoice", <<>>) : r.res = "ok"
                /\ \A r \in Outcomes("ConfirmChoice", <<>>) :
                      r.res = "ok" =>
                        /\ \E c \in db.cards : c.id = id
                        /\ r.db = [db EXCEPT !.cards = {c \in @ : c.id # id}]
                        /\ r.model.mode = "ViewingBoard"
                        /\ r.model.board =
                              [model.board EXCEPT !.columns[sci + 1].cards = RemoveAt(@, sca)]

\* C7 is reached: the confirmation was toggled to Yes on the second of two
\* cards of a column
C7_Witness ==
    /\ Ready /\ model.mode = "ConfirmCardDeletion" /\ HasSelectedCard(model)
    /\ model.confirmation_state = "Yes"
    /\ Len(selected_column(model).cards) = 2
    /\ model.selected.card_index = 1

\* C8: in MovingCard, move-left in the first column and move-right in the
\* last column return Ok without a Store call: the board, the cursor, the
\* mode and the database are what they were
C8_NoMoveAtTheEdge ==
    (Ready /\ model.mode = "MovingCard" /\ model.board # NoBoard) =>
        /\ model.selected.column_index = 0 =>
                Outcomes("MoveCardLeft", <<>>) = {Ok(model, db)}
        /\ model.selected.column_index = Len(model.board.columns) - 1 =>
                Outcomes("MoveCardRight", <<>>) = {Ok(model, db)}

\* C8 is reached: MovingCard with the card in the first of two columns, and
\* with the card in the last of two columns
C8_Witness ==
    /\ Ready /\ model.mode = "MovingCard" /\ HasSelectedCard(model)
    /\ Len(model.board.columns) = 2
    /\ model.selected.column_index = 1
    /\ model.board.columns[1].cards # <<>>

\* C9: creating a board with zero columns fails, through new-board (the text
\* has no "- <column>" line) and through Model::create_board, and leaves the
\* Store and the model, the board list included, as they were
C9_ZeroColumnsRejected ==
    (Ready /\ model.mode = "ViewingBoards") =>
        \A name \in BoardNames :
            /\ \A r \in Outcomes("NewBoard", BoardText(name, <<>>)) :
                    r.res \notin {"ok", "panic"} /\ r.db = db /\ r.model = model
            /\ \A r \in Model_create_board(model, db, name, <<>>, now) :
                    r.res \notin {"ok", "panic"} /\ r.db = db /\ r.model = model

\* C9 is reached: new-board with a text without columns has failed while a
\* board exists and is listed
C9_Witness ==
    /\ current_msg = "could not parse raw board text: bad columns"
    /\ model.mode = "ViewingBoards"
    /\ model.board_metas # <<>>
    /\ db.boards # <<>>

\* C10, as the spec states it: new-board with a name in use or a column name
\* twice fails and leaves Store, board list and cursor as they were, and a
\* later create_board with the same name and a valid column list succeeds
C10_FailedCreateThenRetry ==
    (Ready /\ model.mode = "ViewingBoards") =>
        \A name \in BoardNames, cs \in ColumnLists \ {<<>>} :
            ((\E b \in BoardIds(db) : db.boards[b].name = name) \/ cs \notin ValidColumnLists) =>
                \A r \in Outcomes("NewBoard", BoardText(name, cs)) :
                    /\ r.res \notin {"ok", "panic"}
                    /\ r.db = db /\ r.model = model
                    /\ \A valid \in ValidColumnLists :
                          Repo_create_board(r.db, name, valid, now).ok

\* C10, amended: the same, the later create_board succeeding when the name
\* was not in use, that is when the failure was a column name given twice
C10_FailedCreateIsAtomic ==
    (Ready /\ model.mode = "ViewingBoards") =>
        \A name \in BoardNames, cs \in ColumnLists \ {<<>>} :
            ((\E b \in BoardIds(db) : db.boards[b].name = name) \/ cs \notin ValidColumnLists) =>
                \A r \in Outcomes("NewBoard", BoardText(name, cs)) :
                    /\ r.res \notin {"ok", "panic"}
                    /\ r.db = db /\ r.model = model
                    /\ (~\E b \in BoardIds(db) : db.boards[b].name = name) =>
                          \A valid \in ValidColumnLists :
                              Repo_create_board(r.db, name, valid, now).ok

\* C10 is reached: with one board stored and listed, new-board has failed on
\* a unique index
C10_Witness ==
    /\ current_msg = ErrUnique
    /\ model.mode = "ViewingBoards"
    /\ Len(db.boards) = 1
    /\ Len(model.board_metas) = 1

\* the entries of a board list that are about board_id
MetasOf(metas, board_id) == {i \in 1..Len(metas) : metas[i].id = board_id}

\* C11, as the spec states it: a board created with a non-empty list of
\* pairwise distinct column names is reported by get_board_metas once, with
\* exactly those column names in that order
C11_ColumnNamesRoundTrip ==
    \A name \in BoardNames, cs \in StoreColumnLists :
        (cs # <<>> /\ Cardinality(Range(cs)) = Len(cs)) =>
            LET r == Repo_create_board(db, name, cs, now)
            IN r.ok =>
                \A metas \in get_board_metas(r.db) :
                    /\ Cardinality(MetasOf(metas, Len(r.db.boards))) = 1
                    /\ \A i \in MetasOf(metas, Len(r.db.boards)) : metas[i].columns = cs

\* a board is selected in the board list
HasSelectedBoard(m) ==
    IsSome(m.selected.board_index) /\ m.selected.board_index < Len(m.board_metas)

\* the outcome r is a failure that left the model and the Store as they were
FailedUnchanged(r) == r.res \notin {"ok", "panic"} /\ r.db = db /\ r.model = model

\* C12: in ViewingBoards with a board selected, an edit-board whose column
\* names are not a superset of the board's, or whose board name is the name of
\* another board, fails and leaves Store, board list, cursor and mode unchanged
C12_FailedEditBoardChangesNothing ==
    (Ready /\ model.mode = "ViewingBoards" /\ HasSelectedBoard(model)) =>
        LET selected_board == model.board_metas[model.selected.board_index + 1]
        IN \A name \in BoardNames, cs \in ColumnLists :
            (\/ ~(Range(selected_board.columns) \subseteq Range(cs))
             \/ \E b \in BoardIds(db) : b # selected_board.id /\ db.boards[b].name = name)
            => /\ \A r \in update_selected_board(model, db, name, cs, now) :
                        FailedUnchanged(r)
               /\ cs # <<>> =>
                    \A r \in Outcomes("EditBoard", BoardText(name, cs)) : FailedUnchanged(r)

\* a failed edit-board has happened: the columns did not match
C12_Witness ==
    /\ current_msg = "Could not update board: columns do not match"
    /\ model.mode = "ViewingBoards"
    /\ HasSelectedBoard(model)
    /\ model.board = NoBoard

\* texts the card pattern does not match: no rule, no title line before the
\* rule, no empty line after the rule, the rule alone
MalformedCardTexts ==
    {<<TextLine("bad input")>>,
     <<TextLine("Title1"), BlankLine, TextLine("body")>>,
     <<RuleLine, BlankLine, TextLine("body")>>,
     <<TextLine("Title1"), RuleLine, TextLine("body")>>,
     <<RuleLine>>}

\* texts the board patterns do not match: no header, or a header and no
\* "- <column>" line
MalformedBoardTexts ==
    {<<TextLine("bad input")>>,
     <<ItemLine("Todo"), ItemLine("Doing"), BlankLine>>,
     <<TextLine("Board1"), BlankLine, ItemLine("Todo"), BlankLine>>,
     <<TextLine("Board1"), RuleLine, ItemLine("Todo"), BlankLine>>}
        \cup {BoardText(name, <<>>) : name \in BoardNames}

\* C13: when the editor hands back a text that is not a card (new-card,
\* edit-card of a selected card) or not a board (new-board, edit-board of a
\* selected board), update returns an error and Store, in-memory board, board
\* list, cursor and mode are as before the message
C13_ParseFailureChangesNothing ==
    Ready =>
        /\ model.mode = "ViewingBoard" =>
                \A text \in MalformedCardTexts :
                    \A r \in Outcomes("NewCard", text) : FailedUnchanged(r)
        /\ (/\ model.mode \in {"ViewingBoard", "ViewingCardDetail"}
            /\ model.board # NoBoard
            /\ HasSelectedCard(model)) =>
                \A text \in MalformedCardTexts :
                    \A r \in Outcomes("EditCard", text) : FailedUnchanged(r)
        /\ model.mode = "ViewingBoards" =>
                \A text \in MalformedBoardTexts :
                    \A r \in Outcomes("NewBoard", text) : FailedUnchanged(r)
        /\ (model.mode = "ViewingBoards" /\ HasSelectedBoard(model)) =>
                \A text \in MalformedBoardTexts :
                    \A r \in Outcomes("EditBoard", text) : FailedUnchanged(r)

\* a card text that did not parse has been handed back on a loaded board
C13_Witness ==
    /\ current_msg = "could not parse raw card text"
    /\ model.mode = "ViewingBoard"
    /\ model.board # NoBoard
    /\ db.cards # {}

\* C14, as the spec states it: the id insert_card gives a card is larger than
\* the id of every card inserted before it, the deleted ones included; so
\* after delete_card of any stored card, the next insert_card on any board
\* gives an id larger than the deleted one
C14_CardIdsNeverReused ==
    \A c \in db.cards, board_id \in BoardIds(db), title \in CardTitles :
        \A r \in insert_card(delete_card(db, c.id), board_id, title, <<TextLine("body")>>) :
            r.card.id > c.id

\* the names that are not a column of board_id
NotColumnsOf(d, board_id) ==
    (ColumnNames \cup {PipeName}) \ {d.statuses[s].name : s \in StatusesOf(d, board_id)}

\* C15, as the spec states it: set_card_status of a stored card with a name
\* that is not a column of the board returns success and leaves every row as
\* it was
C15_UnknownColumnIsSilent ==
    \A c \in db.cards, board_id \in BoardIds(db) :
        \A name \in NotColumnsOf(db, board_id) :
            LET r == set_card_status(db, board_id, c.id, name)
            IN r.ok /\ r.db = db

\* C16, as the spec states it: while the program runs, a board is loaded in
\* every state whose mode is ViewingBoard, ViewingCardDetail, MovingCard or
\* ConfirmCardDeletion, and enter-board with no board selected leaves the
\* mode ViewingBoards
C16_BoardLoadedOutsideBoardList ==
    ~aborted =>
        /\ model.mode \in {"ViewingBoard", "ViewingCardDetail", "MovingCard",
                           "ConfirmCardDeletion"} => model.board # NoBoard
        /\ (Ready /\ model.mode = "ViewingBoards" /\ ~IsSome(model.selected.board_index)) =>
                \A r \in Outcomes("ViewBoardMode", <<>>) : r.model.mode = "ViewingBoards"

\* C17, as the spec states it: delete-card in ViewingBoard with no card
\* selected leaves the mode ViewingBoard and changes nothing
C17_DeleteCardNeedsSelection ==
    (/\ Ready
     /\ model.mode = "ViewingBoard"
     /\ model.board # NoBoard
     /\ ~IsSome(model.selected.card_index)) =>
        \A r \in Outcomes("DeleteCard", <<>>) : r.res = "ok" /\ r.model = model /\ r.db = db

\* C18, as the spec states it: after a successful new-board in ViewingBoards
\* the board list is the refreshed list of the Store, the selected board
\* index is 0 and the entry at index 0 is the board just created
C18_NewBoardIsFirst ==
    (Ready /\ model.mode = "ViewingBoards") =>
        \A name \in BoardNames, cs \in ColumnLists :
            \A r \in Outcomes("NewBoard", BoardText(name, cs)) :
                r.res = "ok" =>
                    /\ r.model.board_metas \in get_board_metas(r.db)
                    /\ r.model.selected.board_index = 0
                    /\ r.model.board_metas[1].id = Len(r.db.boards)
                    /\ r.model.board_metas[1].name = name

\* C19: a successful new-card in ViewingBoard on a loaded board adds one
\* cards row, in the board's column of lowest order, which is in-memory
\* column 0; that column becomes the new card followed by the cards it held,
\* the other columns stay, the cursor is (column 0, card 0) and the mode is
\* ViewingBoard, whatever was selected before
C19_NewCardGoesFirst ==
    (Ready /\ model.mode = "ViewingBoard" /\ model.board # NoBoard) =>
        \A title \in CardTitles :
            \A r \in Outcomes("NewCard", CardText(title, <<TextLine("body")>>)) :
                r.res = "ok" =>
                    /\ Cardinality(r.db.cards \ db.cards) = 1
                    /\ db.cards \subseteq r.db.cards
                    /\ \A c \in r.db.cards \ db.cards :
                        /\ c.board_id = model.board.id
                        /\ c.title = title
                        /\ c.status_id \in insert_card_status(db, model.board.id)
                        /\ db.statuses[c.status_id].name = r.model.board.columns[1].name
                        /\ r.model.board.columns[1].cards =
                                <<CardOf(c)>> \o model.board.columns[1].cards
                    /\ \A i \in 2..Len(model.board.columns) :
                            r.model.board.columns[i] = model.board.columns[i]
                    /\ Len(r.model.board.columns) = Len(model.board.columns)
                    /\ r.model.selected.column_index = 0
                    /\ r.model.selected.card_index = 0
                    /\ r.model.mode = "ViewingBoard"

\* a card has been added in front of another one on a board of two columns
C19_Witness ==
    /\ model.mode = "ViewingBoard"
    /\ model.board # NoBoard
    /\ Len(model.board.columns) = 2
    /\ Len(model.board.columns[1].cards) = 2
    /\ model.board.columns[1].cards[1].id = MaxOf({c.id : c \in db.cards})
    /\ model.selected.column_index = 0
    /\ model.selected.card_index = 0
    /\ current_msg = NoMessage

\* the board list metas is ordered by viewed_at, latest first
ViewedDescending(d, metas) ==
    \A i \in 1..Len(metas), j \in 1..Len(metas) :
        i < j => d.boards[metas[i].id].viewed_at >= d.boards[metas[j].id].viewed_at

\* C20, as the spec states it: enter-board on the selected board X and then
\* view-boards-mode gives mode ViewingBoards with no board loaded, column and
\* card index None, the board list of the Store ordered by viewed_at
\* descending, and X at the selected index 0
C20_MostRecentlyUsedFirst ==
    (Ready /\ model.mode = "ViewingBoards" /\ HasSelectedBoard(model)) =>
        LET X == model.board_metas[model.selected.board_index + 1].id
        IN \A r1 \in Outcomes("ViewBoardMode", <<>>) :
            r1.res = "ok" =>
                \A r2 \in update(r1.model, r1.db, now, "ViewBoardsMode", <<>>) :
                    /\ r2.res = "ok"
                    /\ r2.model.mode = "ViewingBoards"
                    /\ r2.model.board = NoBoard
                    /\ r2.model.selected.column_index = None
                    /\ r2.model.selected.card_index = None
                    /\ r2.model.board_metas \in get_board_metas(r2.db)
                    /\ ViewedDescending(r2.db, r2.model.board_metas)
                    /\ r2.model.selected.board_index = 0
                    /\ r2.model.board_metas[1].id = X

\* C21, as the spec states it: a ClearError signal that the loop receives, in
\* whatever mode, does not abort the process and changes nothing but the
\* error, which becomes None; received a second time it changes nothing more
C21_ClearErrorInAnyMode ==
    (Ready /\ internal_events > 0) =>
        \A r \in update(model, db, now, "SetError", NoError) :
            /\ r.res = "ok"
            /\ r.db = db
            /\ r.model = [model EXCEPT !.error = NoError]
            /\ \A r2 \in update(r.model, r.db, now, "SetError", NoError) :
                    r2.res = "ok" /\ r2.db = r.db /\ r2.model = r.model

\* C22, as the spec states it: once an error is stored for display, the
\* running program reaches error = None, unless the user quits
C22_ErrorIsEventuallyCleared ==
    (~aborted /\ model.error # NoError)
        ~> (~aborted /\ (model.error = NoError \/ model.running_state = "Done"))

\* the cursor the horizontal move to column target is to give: card index
\* None on an empty target, Some(0) from an empty source, else the previous
\* card index, at most target_len - 1
NavigatedTo(m, target) ==
    LET source_len == Len(selected_column(m).cards)
        target_len == Len(m.board.columns[target + 1].cards)
    IN [m EXCEPT !.selected.column_index = target,
                 !.selected.card_index =
                    IF target_len = 0 THEN None
                    ELSE IF source_len = 0 THEN 0
                    ELSE Min(target_len - 1, m.selected.card_index)]

Max(a, b) == IF a >= b THEN a ELSE b

\* the outcomes of msg all are Ok, leave the Store alone and change at most
\* the index `field` of the cursor, to `value`
OnlyIndex(msg, field, value) ==
    \A r \in Outcomes(msg, <<>>) :
        /\ r.res = "ok" /\ r.db = db
        /\ r.model = [model EXCEPT !.selected[field] = value]

\* C24, as the spec states it: in ViewingBoard a set card index i becomes
\* max(i - 1, 0) on navigate-up and min(i + 1, len - 1) on navigate-down, len
\* the length of the selected column, and is an index of that column; in
\* ViewingBoards a set board index does the same in the board list; an unset
\* index stays unset
C24_VerticalNavigation ==
    Ready =>
        /\ (model.mode = "ViewingBoard" /\ model.board # NoBoard /\ HasSelectedColumn(model)) =>
                LET i == model.selected.card_index
                    len == Len(selected_column(model).cards)
                IN IF IsSome(i)
                   THEN /\ OnlyIndex("NavigateUp", "card_index", Max(i - 1, 0))
                        /\ OnlyIndex("NavigateDown", "card_index", Min(i + 1, len - 1))
                        /\ Min(i + 1, len - 1) \in 0..(len - 1)
                        /\ Max(i - 1, 0) \in 0..(len - 1)
                   ELSE /\ OnlyIndex("NavigateUp", "card_index", None)
                        /\ OnlyIndex("NavigateDown", "card_index", None)
        /\ model.mode = "ViewingBoards" =>
                LET i == model.selected.board_index
                    len == Len(model.board_metas)
                IN IF IsSome(i)
                   THEN /\ OnlyIndex("NavigateUp", "board_index", Max(i - 1, 0))
                        /\ OnlyIndex("NavigateDown", "board_index", Min(i + 1, len - 1))
                        /\ Min(i + 1, len - 1) \in 0..(len - 1)
                        /\ Max(i - 1, 0) \in 0..(len - 1)
                   ELSE /\ OnlyIndex("NavigateUp", "board_index", None)
                        /\ OnlyIndex("NavigateDown", "board_index", None)

\* the model after the selected card went to the front of column target
CardMovedTo(m, target) ==
    LET sci == m.selected.column_index
        sca == m.selected.card_index
    IN [m EXCEPT !.board.columns[sci + 1].cards = RemoveAt(@, sca),
                 !.board.columns[target + 1].cards = <<selected_card(m)>> \o @,
                 !.selected.column_index = target,
                 !.selected.card_index = 0]

\* the Store after card_id was given the column column_name of board_id
StatusSetTo(d, board_id, card_id, column_name) ==
    [d EXCEPT !.cards =
        {IF c.id = card_id
         THEN [c EXCEPT !.status_id =
                    CHOOSE s \in StatusesOf(d, board_id) : d.statuses[s].name = column_name]
         ELSE c : c \in d.cards}]

\* the outcomes of msg that are Ok are the move of the selected card to
\* column target, in memory and in the Store, and there is one
MovesCardTo(msg, target) ==
    /\ \E r \in Outcomes(msg, <<>>) : r.res = "ok"
    /\ \A r \in Outcomes(msg, <<>>) :
        /\ r.res # "panic"
        /\ r.res = "ok" =>
            /\ r.model = CardMovedTo(model, target)
            /\ r.model.mode = "MovingCard"
            /\ r.db = StatusSetTo(db, model.board.id, selected_card(model).id,
                                  model.board.columns[target + 1].name)
            /\ \E c \in r.db.cards :
                /\ c.id = selected_card(model).id
                /\ db.statuses[c.status_id].name = model.board.columns[target + 1].name
                /\ db.statuses[c.status_id].board_id = model.board.id

\* C25: in MovingCard with a card selected, a move-left / move-right towards
\* an existing neighbour column whose Store call succeeds takes the card out
\* of the source list, makes the neighbour its stored column, puts it at index
\* 0 of the neighbour's list, sets the cursor to (neighbour, 0), leaves every
\* other card and row as it was and stays in MovingCard
C25_MoveCardToNeighbour ==
    (Ready /\ model.mode = "MovingCard" /\ model.board # NoBoard /\ HasSelectedCard(model)) =>
        LET ci == model.selected.column_index
        IN /\ ci >= 1 => MovesCardTo("MoveCardLeft", ci - 1)
           /\ ci + 1 < Len(model.board.columns) => MovesCardTo("MoveCardRight", ci + 1)

\* a card has been moved in front of a card with a larger id
C25_Witness ==
    /\ model.mode = "MovingCard"
    /\ model.board # NoBoard
    /\ HasSelectedCard(model)
    /\ model.selected.card_index = 0
    /\ Len(selected_column(model).cards) = 2
    /\ selected_column(model).cards[1].id < selected_column(model).cards[2].id

\* C26: the confirmed deletion of the card at index i of a selected column of
\* n >= 2 cards, when delete_card returns Ok, leaves that column's list equal
\* to the old one without element i, the other columns as they were, and the
\* card index min(i, n - 2), an index of the shortened list
C26_DeleteKeepsCursorInside ==
    (/\ Ready
     /\ model.mode = "ConfirmCardDeletion"
     /\ model.confirmation_state = "Yes"
     /\ model.board # NoBoard
     /\ HasSelectedCard(model)
     /\ Len(selected_column(model).cards) >= 2) =>
        LET i == model.selected.card_index
            ci == model.selected.column_index
            n == Len(selected_column(model).cards)
        IN /\ \E r \in Outcomes("ConfirmChoice", <<>>) : r.res = "ok"
           /\ \A r \in Outcomes("ConfirmChoice", <<>>) :
                /\ r.res # "panic"
                /\ r.res = "ok" =>
                    /\ r.model.board.columns =
                            [model.board.columns EXCEPT ![ci + 1].cards =
                                RemoveAt(selected_column(model).cards, i)]
                    /\ r.model.selected.column_index = ci
                    /\ r.model.selected.card_index = Min(i, n - 2)
                    /\ r.model.selected.card_index < Len(r.model.board.columns[ci + 1].cards)

\* the last card of a column of two has been deleted: the card with the larger
\* id is left, under the cursor
C26_Witness ==
    /\ model.mode = "ViewingBoard"
    /\ model.board # NoBoard
    /\ Len(model.board.columns) = 1
    /\ db.boards[model.board.id].card_id = 3
    /\ Len(model.board.columns[1].cards) = 1
    /\ model.board.columns[1].cards[1].id = 2
    /\ model.selected.card_index = 0
    /\ current_msg = NoMessage

\* C27: in every reachable state whose mode is not ConfirmCardDeletion the
\* confirmation is No, so the mode becomes ConfirmCardDeletion with No; a
\* deletion whose Store call failed stays in ConfirmCardDeletion
C27_ConfirmationDefaultsToNo ==
    /\ model.mode # "ConfirmCardDeletion" => model.confirmation_state = "No"
    /\ (Ready /\ model.mode = "ViewingBoard") =>
            \A r \in Outcomes("DeleteCard", <<>>) :
                r.model.mode = "ConfirmCardDeletion" => r.model.confirmation_state = "No"
    /\ (Ready /\ model.mode = "ConfirmCardDeletion") =>
            \A r \in Outcomes("ConfirmChoice", <<>>) :
                r.res # "panic" =>
                    \/ r.model.confirmation_state = "No"
                    \/ r.res # "ok" /\ r.model.mode = "ConfirmCardDeletion"

\* a deletion has been confirmed: the only card inserted is gone and the
\* program is back in ViewingBoard
C27_Witness ==
    /\ model.mode = "ViewingBoard"
    /\ model.board # NoBoard
    /\ model.confirmation_state = "No"
    /\ db.boards[model.board.id].card_id = 2
    /\ db.cards = {}
    /\ current_msg = NoMessage
    /\ ~aborted

\* C28, as the spec states it: in every state of the running program whose
\* mode is MovingCard the cursor is on an existing card, and move-left and
\* move-right do not abort
C28_MovingCardHasACard ==
    (~aborted /\ model.mode = "MovingCard") =>
        /\ model.board # NoBoard
        /\ HasSelectedCard(model)
        /\ Ready =>
            \A msg \in {"MoveCardLeft", "MoveCardRight"} :
                \A r \in Outcomes(msg, <<>>) : r.res # "panic"

\* the cards of a list are in strictly descending order of id
StrictlyDescending(cards) ==
    \A i \in 1..Len(cards), j \in 1..Len(cards) : i < j => cards[i].id > cards[j].id

\* C29: exit-move gives mode ViewingBoard with every in-memory column in
\* strictly descending order of id and holding the cards it held, and every
\* reachable ViewingBoard state has its columns in that order
C29_ColumnsSortedInViewingBoard ==
    /\ (model.mode = "ViewingBoard" /\ model.board # NoBoard) =>
            \A i \in 1..Len(model.board.columns) :
                StrictlyDescending(model.board.columns[i].cards)
    /\ (Ready /\ model.mode = "MovingCard" /\ model.board # NoBoard) =>
            \A r \in Outcomes("ViewBoardMode", <<>>) :
                /\ r.res = "ok" /\ r.db = db
                /\ r.model.mode = "ViewingBoard"
                /\ r.model.selected = model.selected
                /\ Len(r.model.board.columns) = Len(model.board.columns)
                /\ \A i \in 1..Len(model.board.columns) :
                    /\ StrictlyDescending(r.model.board.columns[i].cards)
                    /\ Range(r.model.board.columns[i].cards) = Range(model.board.columns[i].cards)
                    /\ Len(r.model.board.columns[i].cards) = Len(model.board.columns[i].cards)
                    /\ r.model.board.columns[i].name = model.board.columns[i].name

\* two cards have been moved to the second column and the program is back in
\* ViewingBoard
C29_Witness ==
    /\ model.mode = "ViewingBoard"
    /\ model.board # NoBoard
    /\ Len(model.board.columns) = 2
    /\ model.board.columns[1].cards = <<>>
    /\ Len(model.board.columns[2].cards) = 2
    /\ model.selected.column_index = 1
    /\ db.boards[model.board.id].card_id = 3

\* column lists the editor hands back for a board whose list shows the
\* pieces of a name with '|'
PieceLists == {<<"To", "do">>, <<"do", "To">>, <<"Todo", "To", "do">>}

\* the board list, showing metas with the cursor on entry i, of a program
\* started on the Store
AtBoardList(metas, i) ==
    [Gone EXCEPT !.running_state = "Running",
                 !.mode = "ViewingBoards",
                 !.board_metas = metas,
                 !.selected.board_index = i - 1]

\* C30, as the spec states it: a successful edit-board of the selected board
\* with a list of pairwise distinct names that is a superset of the columns
\* the board list shows gives a Store for which get_board_metas reports the
\* board with the new name and exactly the new list, in which every earlier
\* statuses row is kept and every card has the column it had
C30_EditBoardSetsColumns ==
    \A metas \in get_board_metas(db) :
        \A i \in 1..Len(metas), name \in BoardNames, cs \in StoreColumnLists \cup PieceLists :
            (/\ Cardinality(Range(cs)) = Len(cs)
             /\ Range(metas[i].columns) \subseteq Range(cs)) =>
                \A r \in update(AtBoardList(metas, i), db, now, "EditBoard", BoardText(name, cs)) :
                    r.res = "ok" =>
                        /\ \A after \in get_board_metas(r.db) :
                            \A k \in MetasOf(after, metas[i].id) :
                                after[k].name = name /\ after[k].columns = cs
                        /\ \A s \in StatusIds(db) :
                            /\ s \in StatusIds(r.db)
                            /\ r.db.statuses[s].name = db.statuses[s].name
                            /\ r.db.statuses[s].board_id = db.statuses[s].board_id
                        /\ r.db.cards = db.cards

\* the statuses rows of each board have pairwise distinct column_order
DistinctColumnOrders(d) ==
    \A s1 \in StatusIds(d), s2 \in StatusIds(d) :
        (s1 # s2 /\ d.statuses[s1].board_id = d.statuses[s2].board_id) =>
            d.statuses[s1].column_order # d.statuses[s2].column_order

\* C31, as the spec states it: the Store that new-board messages built has
\* pairwise distinct order indices within each board, and so has the Store
\* every edit-board message leaves
C31_ColumnOrdersDistinct ==
    /\ DistinctColumnOrders(db)
    /\ \A metas \in get_board_metas(db) :
        \A i \in 1..Len(metas), name \in BoardNames, cs \in StoreColumnLists \cup PieceLists :
            \A r \in update(AtBoardList(metas, i), db, now, "EditBoard", BoardText(name, cs)) :
                DistinctColumnOrders(r.db)

\* the stored cards of the column with statuses row s, as in-memory cards
StoredCards(d, s) == {CardOf(c) : c \in {row \in d.cards : row.status_id = s}}

\* the in-memory board b agrees with the Store: its columns are the board's
\* statuses rows by ascending column_order, and each column holds, once
\* each, the stored cards of that row
AgreesWithStore(b, d) ==
    /\ b.id \in BoardIds(d)
    /\ b.name = d.boards[b.id].name
    /\ \E co \in StatusOrders(d, b.id) :
        /\ Len(b.columns) = Len(co)
        /\ \A i \in 1..Len(co) :
            /\ b.columns[i].name = d.statuses[co[i]].name
            /\ Range(b.columns[i].cards) = StoredCards(d, co[i])
            /\ Len(b.columns[i].cards) = Cardinality(StoredCards(d, co[i]))

\* C32: in every state of the running program in which a board is loaded and
\* the last update step met no Store failure, the in-memory board agrees with
\* the Store
C32_BoardAgreesWithStore ==
    (~aborted /\ model.board # NoBoard /\ current_msg \notin StoreErrors) =>
        AgreesWithStore(model.board, db)

\* the card titled Title2 has been moved to the second column, where the
\* cursor is
C32_Witness ==
    /\ ~aborted
    /\ current_msg = NoMessage
    /\ model.mode = "MovingCard"
    /\ model.board # NoBoard
    /\ Len(model.board.columns) = 2
    /\ model.selected.column_index = 1
    /\ model.board.columns[2].cards # <<>>
    /\ model.board.columns[2].cards[1].title = "Title2"
    /\ db.boards[model.board.id].card_id = 2

\* the messages that have a match arm of their own in update, by mode; every
\* other message reaches `m => panic!("unhandled message")`
Handled(mode) ==
    CASE mode = "ViewingBoard" ->
            {"ViewBoardsMode", "MoveCardMode", "ViewCardDetailMode", "Quit", "NavigateLeft",
             "NavigateDown", "NavigateUp", "NavigateRight", "NewCard", "EditCard",
             "DeleteCard", "SetError"}
      [] mode = "ViewingCardDetail" -> {"ViewBoardMode", "Quit", "EditCard"}
      [] mode = "MovingCard" -> {"MoveCardLeft", "MoveCardRight", "ViewBoardMode"}
      [] mode = "ConfirmCardDeletion" ->
            {"ConfirmChoice", "NavigateLeft", "NavigateRight", "ViewBoardMode"}
      [] mode = "ViewingBoards" ->
            {"NavigateUp", "NavigateDown", "NewBoard", "EditBoard", "ViewBoardMode", "Quit"}

\* C33, as the spec states it: whatever the mode the program is in, the
\* message of every key and the SetError(None) of a received ClearError have
\* a match arm in update for that mode
C33_EveryEventIsHandled ==
    Ready =>
        /\ \A key \in Keys :
                handle_event(key, model.mode) \in Handled(model.mode) \cup {NoMessage}
        /\ internal_events > 0 => "SetError" \in Handled(model.mode)

\* C34, as the spec states it: a move-left / move-right whose set_card_status
\* fails returns the error with the in-memory board and the cursor as they
\* were before the message
C34_FailedMoveChangesNothing ==
    (Ready /\ model.mode = "MovingCard" /\ model.board # NoBoard /\ HasSelectedCard(model)) =>
        \A msg \in {"MoveCardLeft", "MoveCardRight"} :
            \A r \in Outcomes(msg, <<>>) :
                r.res \notin {"ok", "panic"} =>
                    /\ r.model.board = model.board
                    /\ r.model.selected = model.selected

\* every Ok outcome of msg has the cursor on the card it is on now
KeepsSelectedCard(msg) ==
    \A r \in Outcomes(msg, <<>>) :
        r.res = "ok" =>
            /\ r.model.board # NoBoard
            /\ HasSelectedCard(r.model)
            /\ selected_card(r.model).id = selected_card(model).id

\* C35, as the spec states it: move-card-mode, every move-left / move-right
\* and exit-move leave the cursor on the card it was on
C35_CursorFollowsTheCard ==
    (Ready /\ model.board # NoBoard /\ HasSelectedCard(model)) =>
        /\ model.mode = "ViewingBoard" => KeepsSelectedCard("MoveCardMode")
        /\ model.mode = "MovingCard" =>
            /\ KeepsSelectedCard("MoveCardLeft")
            /\ KeepsSelectedCard("MoveCardRight")
            /\ KeepsSelectedCard("ViewBoardMode")

\* C36, as the spec states it: after a successful edit-board the board index
\* designates, in the refreshed board list, the board that was edited
C36_EditedBoardStaysSelected ==
    (Ready /\ model.mode = "ViewingBoards" /\ HasSelectedBoard(model)) =>
        LET selected_board == model.board_metas[model.selected.board_index + 1]
        IN \A reply \in BoardReplies :
            \A r \in Outcomes("EditBoard", reply) :
                r.res = "ok" =>
                    /\ HasSelectedBoard(r.model)
                    /\ r.model.board_metas[r.model.selected.board_index + 1].id
                           = selected_board.id

\* C37: while the program runs in ViewingBoards, the board index is None
\* exactly when the board list is empty, and otherwise it is less than the
\* length of the board list
C37_BoardIndexInsideBoardList ==
    (~aborted /\ model.mode = "ViewingBoards") =>
        /\ ~IsSome(model.selected.board_index) <=> model.board_metas = <<>>
        /\ IsSome(model.selected.board_index) =>
               model.selected.board_index < Len(model.board_metas)

\* the board list shows two boards and the cursor has been moved down to the
\* second one
C37_Witness ==
    /\ ~aborted
    /\ model.mode = "ViewingBoards"
    /\ Len(model.board_metas) = 2
    /\ model.selected.board_index = 1

\* no clear-error timer is asleep and no ClearError is queued
Quiescent == timers = 0 /\ internal_events = 0

\* C38, as the spec states it: from a state with a clear-error timer asleep
\* the running program reaches a quiescent state, unless another error is
\* raised or the program ends
C38_TimersDieOut ==
    (~aborted /\ timers > 0)
        ~> \/ Quiescent
           \/ current_msg # NoMessage
           \/ aborted \/ model.running_state = "Done"

\* the line whose characters are s: "- <column>" reads as an item
LineOf(s) ==
    IF \E c \in ColumnNames : Dashed[c] = s
    THEN ItemLine(CHOOSE c \in ColumnNames : Dashed[c] = s)
    ELSE TextLine(s)

\* Message::EditBoard, board_for_editor: "<name>\n==========\n\n" and
\* "- <column>\n" for every column of the board list's entry
board_for_editor(selected_board) ==
    <<LineOf(selected_board.name), RuleLine, BlankLine>>
        \o [i \in 1..Len(selected_board.columns) |-> ItemLine(selected_board.columns[i])]

\* board texts of the editor: the name line is a plain name or reads
\* "- <column>", followed by up to two columns
NamedBoardTexts ==
    {<<nl, RuleLine, BlankLine>> \o [i \in 1..Len(cs) |-> ItemLine(cs[i])] \o <<BlankLine>> :
        nl \in {TextLine(n) : n \in BoardNames} \cup {ItemLine(c) : c \in ColumnNames},
        cs \in StoreColumnLists}

\* C39, as the spec states it: for a board created from a text that
\* parse_raw_board_text accepts, the edit-board template of its board list
\* entry parses to the board's name and column list, and an edit-board to
\* which the editor returns the template succeeds and leaves the name and the
\* column list of the board as they were
C39_TemplateRoundTrip ==
    \A t0 \in NamedBoardTexts :
        LET p0 == parse_raw_board_text(t0)
        IN p0.ok =>
            LET c == Repo_create_board(db, p0.name, p0.columns, now)
            IN c.ok =>
                \A metas \in get_board_metas(c.db) :
                    \A i \in MetasOf(metas, Len(c.db.boards)) :
                        LET text == board_for_editor(metas[i])
                            p == parse_raw_board_text(text)
                        IN /\ p.ok /\ p.name = p0.name /\ p.columns = p0.columns
                           /\ \A r \in update(AtBoardList(metas, i), c.db, now, "EditBoard", text) :
                                /\ r.res = "ok"
                                /\ \A after \in get_board_metas(r.db) :
                                    \A k \in MetasOf(after, metas[i].id) :
                                        /\ after[k].name = p0.name
                                        /\ after[k].columns = p0.columns

\* C40, as the spec states it: edit-board in ViewingBoards with no board
\* selected returns Ok and leaves the Store, the board list, the cursor and
\* the mode as they were
C40_EditBoardWithoutBoard ==
    (Ready /\ model.mode = "ViewingBoards" /\ ~IsSome(model.selected.board_index)) =>
        \A reply \in BoardReplies :
            Outcomes("EditBoard", reply) = {Ok(model, db)}

====
